---- MODULE Spec2Model ----
(***************************************************************************)
(* Model of tugger/src/wix.rs: identifier derivation, the manifest-to-WiX  *)
(* compiler (write_file_manifest_to_wix), and the MSI / bundle builders    *)
(* that drive candle.exe and light.exe.                                    *)
(*                                                                         *)
(* Strings are sequences of one-character strings, so that replace(),      *)
(* joining with '/', and prefix tests are computed and not assumed.        *)
(* A path is the sequence of its components; Option<T> is <<>> for None    *)
(* and <<x>> for Some(x).                                                  *)
(***************************************************************************)
EXTENDS Naturals, Sequences, FiniteSets, TLC

VARIABLES
    manifest,       \* FileManifest given to write_file_manifest_to_wix: set of relative paths
    compiled,       \* TRUE once write_file_manifest_to_wix has returned
    root_id,        \* the root_directory_id argument of the last compilation
    doc,            \* the emitted document: the sequence of its <Fragment> elements
    doc_again,      \* the document of a second compilation (<<>>: not compiled again)
    order_again,    \* history: the order the entries of the second compilation's manifest were added in
    target_triple,  \* WiXInstallerBuilder.target_triple
    wxs_files,      \* WiXInstallerBuilder.wxs_files: set of relative paths (a FileManifest)
    registered,     \* history: the paths in the order they were registered
    io_log,         \* history: file reads attempted by add_wxs_file
    last_result,    \* result of the last builder configuration call: "none", "Ok", "Err"
    include_vc_redist_x86, \* WiXBundleInstallerBuilder.include_vc_redist_x86
    include_vc_redist_x64, \* WiXBundleInstallerBuilder.include_vc_redist_x64
    fs,             \* the build directory: set of artefacts present in it
    pc,             \* position of the running build ("idle" when none runs)
    kind,           \* which build runs or ran last: "none", "msi", "exe"
    todo,           \* build_msi: fragment paths not yet handed to candle (all_wxs_paths iterator)
    wixobj_paths,   \* intermediate outputs collected so far
    candle_log,     \* history: candle invocations of the current build, [wxs, arch, exit]
    light_log,      \* history: light invocations of the current build, [wixobjs, exit]
    fetch_log,      \* history: download_and_verify calls of the current build (what was fetched)
    had_toolset,    \* history: whether the toolchain was in the build directory when the build began
    fs_before,      \* history: the build directory as it was when the build began
    chain,          \* build_exe: the <ExePackage> entries of the <Chain> written to bundle.wxs (None: not written)
    result,         \* result of the current build: "none", "Ok", "Err"
    output_written, \* history: whether the current build wrote the artefact at output_path
    builds,         \* number of builds started
    inv_pc,         \* position of the running run_candle / run_light call ("idle" when none)
    child,          \* the child process of the call: [tool, spawned, out, exit]
    sink,           \* the lines the call has given to the logger, in order
    waited,         \* whether the call has collected the child's exit status
    inv_result      \* what the call returned: "none", "Ok", "Err"

vars == <<manifest, compiled, root_id, doc, doc_again, order_again, target_triple, wxs_files, registered,
          io_log, last_result, include_vc_redist_x86, include_vc_redist_x64, fs, pc,
          kind, todo, wixobj_paths, candle_log, light_log, fetch_log, had_toolset, fs_before, chain,
          result, output_written, builds, inv_pc, child, sink, waited, inv_result>>

invokerVars == <<inv_pc, child, sink, waited, inv_result>>

compilerVars == <<manifest, compiled, root_id, doc, doc_again, order_again>>

builderVars == <<target_triple, wxs_files, registered, io_log, last_result,
                 include_vc_redist_x86, include_vc_redist_x64, fs, pc, kind, todo,
                 wixobj_paths, candle_log, light_log, fetch_log, had_toolset, fs_before, chain, result,
                 output_written, builds, inv_pc, child, sink, waited, inv_result>>

-----------------------------------------------------------------------------
(* Bounds of the model.                                                    *)

\* Largest number of entries in the compiled manifest.
MaxFiles == 3

\* Largest number of components of a manifest path (directories plus file name).
MaxDepth == 4

-----------------------------------------------------------------------------
(* Strings and paths.                                                      *)

None == <<>>

Some(x) == <<x>>

\* The ASCII codes of the characters that occur in compared names.
AsciiCode ==
    "-" :> 45 @@ "." :> 46 @@ "/" :> 47 @@ "4" :> 52 @@ "6" :> 54 @@ "8" :> 56 @@
    "O" :> 79 @@ "R" :> 82 @@ "T" :> 84 @@ "_" :> 95 @@ "a" :> 97 @@ "b" :> 98 @@
    "c" :> 99 @@ "d" :> 100 @@ "e" :> 101 @@ "f" :> 102 @@ "g" :> 103 @@ "h" :> 104 @@
    "i" :> 105 @@ "l" :> 108 @@ "m" :> 109 @@ "n" :> 110 @@ "o" :> 111 @@ "p" :> 112 @@
    "r" :> 114 @@ "s" :> 115 @@ "t" :> 116 @@ "u" :> 117 @@ "w" :> 119 @@ "x" :> 120

CharCode(c) == AsciiCode[c]

\* str::replace(from, to) for a one-character pattern.
Replace(s, from, to) == [i \in 1..Len(s) |-> IF s[i] = from THEN to ELSE s[i]]

\* Byte-wise lexicographic order of two strings (Ord for OsStr).
RECURSIVE StrLess(_, _)
StrLess(s, t) ==
    IF t = <<>> THEN FALSE
    ELSE IF s = <<>> THEN TRUE
    ELSE IF s[1] # t[1] THEN CharCode(s[1]) < CharCode(t[1])
    ELSE StrLess(Tail(s), Tail(t))

\* str::starts_with.
StrStartsWith(s, t) == Len(t) <= Len(s) /\ SubSeq(s, 1, Len(t)) = t

\* str::contains.
StrContains(s, t) ==
    \E i \in 0..Len(s) : i + Len(t) <= Len(s) /\ SubSeq(s, i + 1, i + Len(t)) = t

\* Path::display / to_string_lossy: the components joined by '/'.
RECURSIVE PathToString(_)
PathToString(p) ==
    IF p = <<>> THEN <<>>
    ELSE IF Len(p) = 1 THEN p[1]
    ELSE p[1] \o <<"/">> \o PathToString(Tail(p))

\* Path::parent: None for the empty path, else the path without its last component.
Parent(p) == IF p = <<>> THEN None ELSE Some(SubSeq(p, 1, Len(p) - 1))

\* Path::file_name of a path that ends in a normal component.
FileName(p) == p[Len(p)]

\* Path::starts_with: whole components, not characters.
PathStartsWith(p, base) == Len(base) <= Len(p) /\ SubSeq(p, 1, Len(base)) = base

\* Ord for Path: lexicographic over the components.
RECURSIVE PathLess(_, _)
PathLess(p, q) ==
    IF q = <<>> THEN FALSE
    ELSE IF p = <<>> THEN TRUE
    ELSE IF p[1] # q[1] THEN StrLess(p[1], q[1])
    ELSE PathLess(Tail(p), Tail(q))

\* Ord for Option<&Path>: None sorts before every Some.
KeyLess(k, l) ==
    IF l = None THEN FALSE
    ELSE IF k = None THEN TRUE
    ELSE PathLess(k[1], l[1])

\* Iteration order of a BTreeMap keyed by PathBuf: ascending paths.
RECURSIVE InsertPath(_, _)
InsertPath(x, s) ==
    IF s = <<>> THEN <<x>>
    ELSE IF PathLess(x, Head(s)) THEN <<x>> \o s
    ELSE <<Head(s)>> \o InsertPath(x, Tail(s))

RECURSIVE SortedPaths(_)
SortedPaths(S) ==
    IF S = {} THEN <<>>
    ELSE LET x == CHOOSE y \in S : TRUE
         IN InsertPath(x, SortedPaths(S \ {x}))

\* Iteration order of a BTreeMap keyed by Option<&Path>.
RECURSIVE InsertKey(_, _)
InsertKey(x, s) ==
    IF s = <<>> THEN <<x>>
    ELSE IF KeyLess(x, Head(s)) THEN <<x>> \o s
    ELSE <<Head(s)>> \o InsertKey(x, Tail(s))

RECURSIVE SortedKeys(_)
SortedKeys(S) ==
    IF S = {} THEN <<>>
    ELSE LET x == CHOOSE y \in S : TRUE
         IN InsertKey(x, SortedKeys(S \ {x}))

\* Iteration order of a BTreeMap keyed by &OsStr.
RECURSIVE InsertName(_, _)
InsertName(x, s) ==
    IF s = <<>> THEN <<x>>
    ELSE IF StrLess(x, Head(s)) THEN <<x>> \o s
    ELSE <<Head(s)>> \o InsertName(x, Tail(s))

RECURSIVE SortedNames(_)
SortedNames(S) ==
    IF S = {} THEN <<>>
    ELSE LET x == CHOOSE y \in S : TRUE
         IN InsertName(x, SortedNames(S \ {x}))

RECURSIVE Flatten(_)
Flatten(ss) == IF ss = <<>> THEN <<>> ELSE Head(ss) \o Flatten(Tail(ss))

Range(s) == {s[i] : i \in 1..Len(s)}

-----------------------------------------------------------------------------
(* FileManifest (file_resource.rs): a map from relative path to content,   *)
(* kept sorted by path.  Only the paths matter to this module.             *)

\* FileManifest::entries: the paths in the map's ascending order.
entries(m) == SortedPaths(m)

\* Every directory that holds, directly or through sub-directories, a file of m.
ImpliedDirectories(m) ==
    UNION {{SubSeq(p, 1, n) : n \in 1..(Len(p) - 1)} : p \in m}

\* FileManifest::entries_by_directory: from each directory of the manifest
\* (None is the root, always present) to the names of the files directly in it.
entries_by_directory(m) ==
    [k \in {None} \cup {Some(d) : d \in ImpliedDirectories(m)} |->
        {FileName(p) : p \in {q \in m : (IF Len(q) = 1 THEN None
                                         ELSE Some(SubSeq(q, 1, Len(q) - 1))) = k}}]

-----------------------------------------------------------------------------
(* Identifier derivation.                                                  *)

DirLit == <<".", "d", "i", "r", ".">>

GroupLit == <<".", "g", "r", "o", "u", "p", ".">>

ComponentLit == <<".", "c", "o", "m", "p", "o", "n", "e", "n", "t", ".">>

FileLit == <<".", "f", "i", "l", "e", ".">>

GUID_NAMESPACE == <<"https://github.com/indygreg/PyOxidizer/tugger/wix">>

\* Mutant of Uuid_new_v5: the UUID also depends on when it is generated, as a
\* random or time-based UUID does.
MutantUuid(namespace, name) == [namespace |-> namespace, name |-> <<name, compiled>>]

\* Uuid::new_v5: a name-based UUID is determined by its namespace and name; the
\* SHA-1 digest is taken to be collision-free, so the UUID is modelled by the pair.
Uuid_new_v5(namespace, name) == [namespace |-> namespace, name |-> name]

\* to_hyphenated().encode_upper(): the text of a UUID, upper-case hex with '-'.
EncodeUpper(uuid) == [uuid |-> uuid, upper |-> TRUE, sep |-> "-"]

\* str::to_lowercase on the text of a UUID.
GuidToLowercase(guid) == [guid EXCEPT !.upper = FALSE]

\* str::replace('-', "_") on the text of a UUID.
GuidReplaceHyphen(guid) == [guid EXCEPT !.sep = IF @ = "-" THEN "_" ELSE @]

directory_to_id(prefix, path) ==
    prefix \o DirLit \o Replace(Replace(PathToString(path), "/", "."), "-", "_")

component_guid(prefix, path) ==
    EncodeUpper(Uuid_new_v5("NAMESPACE_URL",
        GUID_NAMESPACE \o <<"/">> \o prefix \o <<"/", "component", "/">>
            \o PathToString(path)))

component_id(prefix, path) ==
    [text |-> prefix \o ComponentLit, guid |-> GuidToLowercase(component_guid(prefix, path))]

file_guid(prefix, name) ==
    EncodeUpper(Uuid_new_v5("NAMESPACE_URL",
        GUID_NAMESPACE \o <<"/">> \o prefix \o <<"/", "file", "/">> \o name))

\* Mutant of file_id: the file name is left out of the hashed name.
MutantFileId(prefix, name) ==
    [text |-> prefix \o FileLit,
     guid |-> GuidReplaceHyphen(GuidToLowercase(file_guid(prefix, <<>>)))]

file_id(prefix, name) ==
    [text |-> prefix \o FileLit,
     guid |-> GuidReplaceHyphen(GuidToLowercase(file_guid(prefix, name)))]

component_group_id(prefix, path) ==
    prefix \o GroupLit \o Replace(Replace(PathToString(path), "/", "."), "-", "_")

-----------------------------------------------------------------------------
(* write_file_manifest_to_wix.  The document is the sequence of its        *)
(* <Fragment> elements; `directory` records the key of the loop iteration  *)
(* that wrote the fragment.                                                *)

\* Mutant of FragmentDirectories: directories that hold no file of their own are skipped.
MutantFragmentDirectories(directories) ==
    SortedKeys({k \in DOMAIN directories : k = None \/ directories[k] # {}})

\* BTreeMap::keys of the map entries_by_directory returns: the loop's order.
FragmentDirectories(directories) == SortedKeys(DOMAIN directories)

\* Mutant of ParentDirectoryId: the root is given a derived id, not root_directory_id.
MutantParentDirectoryId(directory, root_directory_id, id_prefix) ==
    IF directory # None THEN directory_to_id(id_prefix, directory[1])
    ELSE directory_to_id(id_prefix, <<root_directory_id>>)

\* The Id of the <DirectoryRef> of a fragment.
ParentDirectoryId(directory, root_directory_id, id_prefix) ==
    IF directory # None THEN directory_to_id(id_prefix, directory[1])
    ELSE root_directory_id

\* Mutant of IsChildDirectory: the component counts are not compared, so every
\* descendant is declared.
MutantIsChildDirectory(directory, d) ==
    IF directory = None /\ (Parent(d) = None \/ Parent(d) = Some(<<>>)) THEN TRUE
    ELSE IF directory # None /\ Some(d) # directory /\ PathStartsWith(d, directory[1])
         THEN TRUE
    ELSE FALSE

\* Whether the key d of `directories` is declared as a child of `directory`.
IsChildDirectory(directory, d) ==
    IF directory = None /\ (Parent(d) = None \/ Parent(d) = Some(<<>>)) THEN TRUE
    ELSE IF directory # None /\ Some(d) # directory /\ PathStartsWith(d, directory[1])
         THEN Len(directory[1]) = Len(d) - 1
    ELSE FALSE

\* The <Directory> elements of the fragment of `directory`.
ChildDirectories(keys, directory, id_prefix) ==
    LET somes == SelectSeq(keys, LAMBDA k : k # None)
        ds == [i \in 1..Len(somes) |-> somes[i][1]]
        kept == SelectSeq(ds, LAMBDA d : IsChildDirectory(directory, d))
    IN [i \in 1..Len(kept) |->
            [Id |-> directory_to_id(id_prefix, kept[i]),
             Name |-> IF directory = None THEN PathToString(kept[i])
                      ELSE FileName(kept[i])]]

\* Mutant of RelPath: the directory is left out of the path.
MutantRelPath(directory, filename) == <<filename>>

\* The path a file of `directory` is given to component_guid / component_id with.
RelPath(directory, filename) ==
    IF directory # None THEN directory[1] \o <<filename>> ELSE <<filename>>

\* The <Component> elements of the fragment of `directory`, each with its <File>.
Components(directory, files, install_prefix, id_prefix) ==
    LET names == SortedNames(files)
    IN [i \in 1..Len(names) |->
            [Id |-> component_id(id_prefix, RelPath(directory, names[i])),
             Guid |-> component_guid(id_prefix, RelPath(directory, names[i])),
             File |-> <<[Id |-> file_id(id_prefix, names[i]),
                         KeyPath |-> "yes",
                         Source |-> PathToString(
                             IF directory # None
                             THEN install_prefix \o directory[1] \o <<names[i]>>
                             ELSE install_prefix \o <<names[i]>>)]>>]]

\* The Id of the <ComponentGroup> of `directory`.
GroupId(directory, root_directory_id, id_prefix) ==
    IF directory # None THEN component_group_id(id_prefix, directory[1])
    ELSE component_group_id(id_prefix, <<root_directory_id>>)

\* Mutant of InGroup: the prefix test is made on the text of the paths.
MutantInGroup(directory, p) ==
    IF directory # None THEN StrStartsWith(PathToString(p), PathToString(directory[1]))
    ELSE TRUE

\* Whether manifest entry p is listed in the group of `directory`.
InGroup(directory, p) ==
    IF directory # None THEN PathStartsWith(p, directory[1]) ELSE TRUE

\* The <ComponentRef> Ids of the group of `directory`.
GroupMembers(all, directory, id_prefix) ==
    LET ps == SelectSeq(all, LAMBDA p : InGroup(directory, p))
    IN [i \in 1..Len(ps) |-> component_id(id_prefix, ps[i])]

\* The two fragments written for one directory.
DirectoryFragments(all, keys, directory, files, install_prefix, root_directory_id, id_prefix) ==
    <<[tag |-> "DirectoryRef",
       directory |-> directory,
       Id |-> ParentDirectoryId(directory, root_directory_id, id_prefix),
       Directory |-> ChildDirectories(keys, directory, id_prefix),
       Component |-> Components(directory, files, install_prefix, id_prefix),
       ComponentRef |-> <<>>],
      [tag |-> "ComponentGroup",
       directory |-> directory,
       Id |-> GroupId(directory, root_directory_id, id_prefix),
       Directory |-> <<>>,
       Component |-> <<>>,
       ComponentRef |-> GroupMembers(all, directory, id_prefix)]>>

write_file_manifest_to_wix(m, install_prefix, root_directory_id, id_prefix) ==
    LET directories == entries_by_directory(m)
        keys == FragmentDirectories(directories)
        all == entries(m)
    IN Flatten([i \in 1..Len(keys) |->
                    DirectoryFragments(all, keys, keys[i], directories[keys[i]],
                                       install_prefix, root_directory_id, id_prefix)])

-----------------------------------------------------------------------------
(* Inputs of the compiler.                                                 *)

DirNames == {<<"a">>, <<"a", "-", "b">>}

FileNames == {<<"a">>, <<"f">>}

\* The directories of the inputs, up to MaxDepth - 1 levels deep: "a" may hold
\* sub-directories, "a-b" holds files only.
DirPaths ==
    {d \in UNION {[1..n -> DirNames] : n \in 0..(MaxDepth - 1)} :
        \A i \in 1..(Len(d) - 1) : d[i] = <<"a">>}

ManifestPaths == {d \o <<f>> : d \in DirPaths, f \in FileNames}

\* build_msi compiles with "ROOT"; the unit test with "root".
RootDirectoryIds == {<<"R", "O", "O", "T">>, <<"r", "o", "o", "t">>}

IdPrefix == <<"p">>

InstallPrefix == <<<<"s", "t", "a", "g", "e", "d", "_", "f", "i", "l", "e", "s">>>>

-----------------------------------------------------------------------------
(* The compiler as a state machine: a manifest is filled, then compiled.   *)

InitCompiler ==
    /\ manifest = {}
    /\ compiled = FALSE
    /\ root_id = <<>>
    /\ doc = <<>>
    /\ doc_again = <<>>
    /\ order_again = <<>>

\* FileManifest::add_file.
add_file(p) ==
    /\ ~compiled
    /\ Cardinality(manifest \cup {p}) <= MaxFiles
    /\ manifest' = manifest \cup {p}
    /\ UNCHANGED <<compiled, root_id, doc, doc_again, order_again>>
    /\ UNCHANGED builderVars

CallWriteFileManifestToWix(rid) ==
    /\ ~compiled
    /\ doc' = write_file_manifest_to_wix(manifest, InstallPrefix, rid, IdPrefix)
    /\ root_id' = rid
    /\ compiled' = TRUE
    /\ UNCHANGED <<manifest, doc_again, order_again>>
    /\ UNCHANGED builderVars

\* The orders in which the entries of manifest m can have been added.
Orders(m) == {o \in [1..Cardinality(m) -> m] : Range(o) = m}

\* The FileManifest that add_file builds from an empty one, called once per path in
\* the given order.
RECURSIVE ManifestFrom(_)
ManifestFrom(order) ==
    IF order = <<>> THEN {}
    ELSE ManifestFrom(SubSeq(order, 1, Len(order) - 1)) \cup {order[Len(order)]}

\* A second compilation: a manifest with the same entries is built by adding them
\* in `order`, and compiled with the arguments of the first compilation.
Regenerate(order) ==
    /\ compiled
    /\ doc_again = <<>>
    /\ doc_again' = write_file_manifest_to_wix(ManifestFrom(order), InstallPrefix,
                                               root_id, IdPrefix)
    /\ order_again' = order
    /\ UNCHANGED <<manifest, compiled, root_id, doc>>
    /\ UNCHANGED builderVars


-----------------------------------------------------------------------------
(* The builders.                                                           *)

\* Largest number of paths registered in wxs_files.
MaxWxsFiles == 2

\* Largest number of builds run in one build directory.
MaxBuilds == 2

X86_64 == <<"x", "8", "6", "_", "6", "4">>

Triples == {<<"x", "8", "6", "_", "6", "4", "-", "p", "c", "-", "w", "i", "n", "d", "o", "w", "s", "-", "m", "s", "v", "c">>,
            <<"i", "6", "8", "6", "-", "p", "c", "-", "w", "i", "n", "d", "o", "w", "s", "-", "m", "s", "v", "c">>,
            <<"a", "a", "r", "c", "h", "6", "4", "-", "p", "c", "-", "w", "i", "n", "d", "o", "w", "s", "-", "m", "s", "v", "c">>}

ArchX64 == <<"x", "6", "4">>

ArchX86 == <<"x", "8", "6">>

target_triple_to_wix_arch(triple) ==
    IF StrContains(triple, X86_64) THEN ArchX64 ELSE ArchX86

WxsDir == <<"w", "x", "s">>

WixobjExt == <<"w", "i", "x", "o", "b", "j">>

InstallFilesWxs == <<"i", "n", "s", "t", "a", "l", "l", "_", "f", "i", "l", "e", "s", ".", "w", "x", "s">>

BundleWxs == <<"b", "u", "n", "d", "l", "e", ".", "w", "x", "s">>

MainWxs == <<"m", "a", "i", "n", ".", "w", "x", "s">>

AWxs == <<"a", ".", "w", "x", "s">>

DotDot == <<".", ".">>

\* Paths given to add_wxs_file_content.
WxsPaths == {<<MainWxs>>, <<AWxs>>, <<InstallFilesWxs>>}

\* Filesystem paths given to add_wxs_file; two of them end in "..".
SourcePaths == {<<<<"d">>, MainWxs>>, <<<<"d">>, DotDot>>, <<DotDot>>}

\* Path::file_name: None when the path is empty or ends in "..".
file_name(path) ==
    IF path = <<>> \/ path[Len(path)] = DotDot THEN None ELSE Some(path[Len(path)])

\* Index of the last '.' of a file name, 0 when it has none.
LastDot(name) ==
    IF \E i \in 1..Len(name) : name[i] = "."
    THEN CHOOSE i \in 1..Len(name) :
            name[i] = "." /\ \A j \in (i + 1)..Len(name) : name[j] # "."
    ELSE 0

\* Path::with_extension: the file name's extension replaced (added when it has none).
with_extension(path, ext) ==
    LET name == path[Len(path)]
        dot == LastDot(name)
        stem == IF dot > 1 THEN SubSeq(name, 1, dot - 1) ELSE name
    IN SubSeq(path, 1, Len(path) - 1) \o <<stem \o <<".">> \o ext>>

\* The directory the registered fragments are written to, under the build path.
wxs_path == <<WxsDir>>

\* all_wxs_paths of build_msi: the registered fragments in the manifest's order,
\* then the generated fragment.
all_wxs_paths(files) ==
    [i \in 1..Len(entries(files)) |-> wxs_path \o entries(files)[i]]
        \o <<wxs_path \o <<InstallFilesWxs>>>>

InitBuilder ==
    /\ target_triple \in Triples
    /\ wxs_files = {}
    /\ registered = <<>>
    /\ io_log = <<>>
    /\ last_result = [op |-> "none", path |-> <<>>, result |-> "none", before |-> {}]
    /\ include_vc_redist_x86 \in BOOLEAN
    /\ include_vc_redist_x64 \in BOOLEAN
    /\ fs = {}
    /\ pc = "idle"
    /\ kind = "none"
    /\ todo = <<>>
    /\ wixobj_paths = <<>>
    /\ candle_log = <<>>
    /\ light_log = <<>>
    /\ fetch_log = <<>>
    /\ had_toolset = FALSE
    /\ fs_before = {}
    /\ chain = None
    /\ result = "none"
    /\ output_written = FALSE
    /\ builds = 0

\* The builders' configuration.
configBuilderVars == <<target_triple, wxs_files, registered, io_log, last_result,
                       include_vc_redist_x86, include_vc_redist_x64>>

buildVars == <<fs, pc, kind, todo, wixobj_paths, candle_log, light_log, fetch_log,
               had_toolset, fs_before, chain, result, output_written, builds>>

\* The builder is configured before its first build.
Configuring == pc = "idle" /\ builds = 0

\* WiXInstallerBuilder::add_wxs_file_content.
add_wxs_file_content(path) ==
    /\ Configuring
    /\ Cardinality(wxs_files \cup {path}) <= MaxWxsFiles
    /\ wxs_files' = wxs_files \cup {path}
    /\ registered' = IF path \in wxs_files THEN registered ELSE Append(registered, path)
    /\ io_log' = <<>>
    /\ last_result' = [op |-> "add_wxs_file_content", path |-> path, result |-> "Ok",
                       before |-> wxs_files]
    /\ UNCHANGED <<target_triple, include_vc_redist_x86, include_vc_redist_x64>>
    /\ UNCHANGED compilerVars
    /\ UNCHANGED buildVars
    /\ UNCHANGED invokerVars

\* The outcome of add_wxs_file for a path whose read succeeds or fails.
AddWxsFileResult(path, read_ok) ==
    IF ~read_ok THEN "Err"
    ELSE IF file_name(path) = None THEN "Err"
    ELSE "Ok"

\* The reads add_wxs_file attempts for a path.
AddWxsFileReads(path) == <<path>>

\* WiXInstallerBuilder::add_wxs_file: FileContent::try_from reads the file, then the
\* file name is resolved, then the content is registered under that name.  Whether
\* the read succeeds is the filesystem's choice.
add_wxs_file(path, read_ok) ==
    LET res == AddWxsFileResult(path, read_ok)
        name == <<file_name(path)[1]>>
    IN /\ Configuring
       /\ res = "Ok" => Cardinality(wxs_files \cup {name}) <= MaxWxsFiles
       /\ io_log' = AddWxsFileReads(path)
       /\ wxs_files' = IF res = "Ok" THEN wxs_files \cup {name} ELSE wxs_files
       /\ registered' = IF res = "Ok" /\ name \notin wxs_files
                        THEN Append(registered, name) ELSE registered
       /\ last_result' = [op |-> "add_wxs_file", path |-> path, result |-> res,
                          before |-> wxs_files]
       /\ UNCHANGED <<target_triple, include_vc_redist_x86, include_vc_redist_x64>>
       /\ UNCHANGED compilerVars
       /\ UNCHANGED buildVars
       /\ UNCHANGED invokerVars


configVars == <<manifest, compiled, root_id, doc, doc_again, order_again, target_triple, wxs_files, registered, io_log, last_result,
                include_vc_redist_x86, include_vc_redist_x64, inv_pc, child, sink, waited, inv_result>>

\* Exit statuses of a toolchain process: zero and nonzero.
ExitCodes == {0, 1}

\* A build begins: build_msi or build_exe is called on the configured builder.
StartBuild(k) ==
    /\ pc \in {"idle", "done"}
    /\ builds < MaxBuilds
    /\ builds' = builds + 1
    /\ kind' = k
    /\ pc' = "extract_wix"
    /\ had_toolset' = ("wix-toolset" \in fs)
    /\ fs_before' = fs
    /\ chain' = None
    /\ todo' = <<>>
    /\ wixobj_paths' = <<>>
    /\ candle_log' = <<>>
    /\ light_log' = <<>>
    /\ fetch_log' = <<>>
    /\ result' = "none"
    /\ output_written' = FALSE
    /\ UNCHANGED fs
    /\ UNCHANGED configVars

build_msi == StartBuild("msi")

build_exe == StartBuild("exe")

\* Whether extract_wix downloads the toolset, given the build directory.
ExtractWixFetches(files) == TRUE

\* extract_wix: download_and_verify, then extract_zip into <build>/wix-toolset.
extract_wix(ok) ==
    /\ pc = "extract_wix"
    /\ fetch_log' = IF ExtractWixFetches(fs) THEN Append(fetch_log, "wix-toolset")
                    ELSE fetch_log
    /\ IF ok
       THEN /\ fs' = fs \cup {"wix-toolset"}
            /\ pc' = IF kind = "msi" THEN "stage" ELSE "redist_x86"
            /\ result' = result
       ELSE /\ fs' = fs
            /\ pc' = "done"
            /\ result' = "Err"
    /\ UNCHANGED <<kind, todo, wixobj_paths, candle_log, light_log, had_toolset, fs_before, chain,
                   output_written, builds>>
    /\ UNCHANGED configVars

\* build_msi: the install files and the registered fragments are written to the
\* build directory and install_files.wxs is generated; any I/O error ends the build.
MsiStage(ok) ==
    /\ pc = "stage"
    /\ IF ok
       THEN /\ fs' = fs \cup {"staged_files", "wxs"}
            /\ todo' = all_wxs_paths(wxs_files)
            /\ pc' = "candle"
            /\ result' = result
       ELSE /\ fs' = fs
            /\ todo' = todo
            /\ pc' = "done"
            /\ result' = "Err"
    /\ UNCHANGED <<kind, wixobj_paths, candle_log, light_log, fetch_log, had_toolset, fs_before, chain,
                   output_written, builds>>
    /\ UNCHANGED configVars

\* Mutant of AfterCandle: every path is mapped before the results are looked at.
MutantAfterCandle(exit, rest) ==
    IF rest # <<>> THEN "next"
    ELSE IF exit # 0 THEN "abort"
    ELSE "light"

\* What collect::<Result<Vec<_>>>() does after a candle run that exited with `exit`:
\* "next" (more paths to map), "light" (all mapped), "abort" (first Err returned).
AfterCandle(exit, rest) ==
    IF exit # 0 THEN "abort"
    ELSE IF rest = <<>> THEN "light"
    ELSE "next"

\* The -arch value build_msi gives candle.
MsiArch(triple) == target_triple_to_wix_arch(triple)

\* build_msi: one run_candle call of the lazy map over all_wxs_paths.
MsiRunCandle(exit) ==
    /\ pc = "candle"
    /\ kind = "msi"
    /\ todo # <<>>
    /\ candle_log' = Append(candle_log,
                            [wxs |-> Head(todo), arch |-> MsiArch(target_triple),
                             exit |-> exit])
    /\ LET after == AfterCandle(exit, Tail(todo))
       IN /\ wixobj_paths' = IF exit = 0
                             THEN Append(wixobj_paths, with_extension(Head(todo), WixobjExt))
                             ELSE wixobj_paths
          /\ todo' = IF after = "abort" THEN todo ELSE Tail(todo)
          /\ pc' = CASE after = "abort" -> "done"
                     [] after = "light" -> "light"
                     [] OTHER -> "candle"
          /\ result' = IF after = "abort" THEN "Err" ELSE result
    /\ UNCHANGED <<fs, kind, light_log, fetch_log, had_toolset, fs_before, chain, output_written, builds>>
    /\ UNCHANGED configVars

\* Mutant of NeedsRedist: a file already in the build directory is fetched again.
MutantNeedsRedist(include, file, files) == include

\* Whether build_exe fetches a redistributable: its flag is set and its file is missing.
NeedsRedist(include, file, files) == include /\ file \notin files

\* build_exe: the x86 redistributable is fetched and written when needed.
ExeRedistX86(ok) ==
    /\ pc = "redist_x86"
    /\ IF NeedsRedist(include_vc_redist_x86, "vc_redist.x86.exe", fs)
       THEN /\ fetch_log' = Append(fetch_log, "vc_redist.x86.exe")
            /\ fs' = IF ok THEN fs \cup {"vc_redist.x86.exe"} ELSE fs
            /\ pc' = IF ok THEN "redist_x64" ELSE "done"
            /\ result' = IF ok THEN result ELSE "Err"
       ELSE /\ ok
            /\ pc' = "redist_x64"
            /\ UNCHANGED <<fetch_log, fs, result>>
    /\ UNCHANGED <<kind, todo, wixobj_paths, candle_log, light_log, had_toolset, fs_before, chain,
                   output_written, builds>>
    /\ UNCHANGED configVars

\* build_exe: the x64 redistributable is fetched and written when needed.
ExeRedistX64(ok) ==
    /\ pc = "redist_x64"
    /\ IF NeedsRedist(include_vc_redist_x64, "vc_redist.x64.exe", fs)
       THEN /\ fetch_log' = Append(fetch_log, "vc_redist.x64.exe")
            /\ fs' = IF ok THEN fs \cup {"vc_redist.x64.exe"} ELSE fs
            /\ pc' = IF ok THEN "bundle_xml" ELSE "done"
            /\ result' = IF ok THEN result ELSE "Err"
       ELSE /\ ok
            /\ pc' = "bundle_xml"
            /\ UNCHANGED <<fetch_log, fs, result>>
    /\ UNCHANGED <<kind, todo, wixobj_paths, candle_log, light_log, had_toolset, fs_before, chain,
                   output_written, builds>>
    /\ UNCHANGED configVars

\* write_bundle_xml: the <ExePackage> entries of the <Chain>, in document order.
write_bundle_xml(x86, x64) ==
    (IF x86 THEN <<[Id |-> "vc_redist.x86.exe", InstallCondition |-> "Not VersionNT64"]>>
     ELSE <<>>)
    \o (IF x64 THEN <<[Id |-> "vc_redist.x64.exe", InstallCondition |-> "VersionNT64"]>>
        ELSE <<>>)

\* build_exe: bundle.wxs is created and written; an I/O error ends the build.
ExeWriteBundle(ok) ==
    /\ pc = "bundle_xml"
    /\ IF ok
       THEN /\ fs' = fs \cup {"bundle.wxs"}
            /\ chain' = Some(write_bundle_xml(include_vc_redist_x86, include_vc_redist_x64))
            /\ todo' = <<<<BundleWxs>>>>
            /\ pc' = "candle"
            /\ result' = result
       ELSE /\ fs' = fs
            /\ chain' = chain
            /\ todo' = todo
            /\ pc' = "done"
            /\ result' = "Err"
    /\ UNCHANGED <<kind, wixobj_paths, candle_log, light_log, fetch_log, had_toolset,
                   fs_before, output_written, builds>>
    /\ UNCHANGED configVars

\* The -arch value build_exe gives candle.
ExeArch == ArchX64

\* build_exe: the single run_candle call, over bundle.wxs.
ExeRunCandle(exit) ==
    /\ pc = "candle"
    /\ kind = "exe"
    /\ todo # <<>>
    /\ candle_log' = Append(candle_log,
                            [wxs |-> Head(todo), arch |-> ExeArch, exit |-> exit])
    /\ wixobj_paths' = IF exit = 0
                       THEN Append(wixobj_paths, with_extension(Head(todo), WixobjExt))
                       ELSE wixobj_paths
    /\ todo' = IF exit = 0 THEN Tail(todo) ELSE todo
    /\ pc' = IF exit = 0 THEN "light" ELSE "done"
    /\ result' = IF exit = 0 THEN result ELSE "Err"
    /\ UNCHANGED <<fs, kind, light_log, fetch_log, had_toolset, fs_before, chain, output_written, builds>>
    /\ UNCHANGED configVars

\* The result of a build whose run_light call saw light.exe exit with `exit`.
LightResult(exit) == IF exit = 0 THEN "Ok" ELSE "Err"

\* run_light, the last step of build_msi and build_exe: light.exe links the
\* intermediate outputs and, when it succeeds, writes the artefact at output_path.
RunLight(exit) ==
    /\ pc = "light"
    /\ light_log' = Append(light_log, [wixobjs |-> wixobj_paths, exit |-> exit])
    /\ fs' = IF exit = 0 THEN fs \cup {"output"} ELSE fs
    /\ output_written' = (exit = 0)
    /\ result' = LightResult(exit)
    /\ pc' = "done"
    /\ UNCHANGED <<kind, todo, wixobj_paths, candle_log, fetch_log, had_toolset, fs_before, chain, builds>>
    /\ UNCHANGED configVars

NextBuild ==
    \/ \E path \in WxsPaths : add_wxs_file_content(path)
    \/ \E path \in SourcePaths, read_ok \in BOOLEAN : add_wxs_file(path, read_ok)
    \/ build_msi
    \/ build_exe
    \/ \E ok \in BOOLEAN : extract_wix(ok)
    \/ \E ok \in BOOLEAN : MsiStage(ok)
    \/ \E exit \in ExitCodes : MsiRunCandle(exit)
    \/ \E ok \in BOOLEAN : ExeRedistX86(ok)
    \/ \E ok \in BOOLEAN : ExeRedistX64(ok)
    \/ \E ok \in BOOLEAN : ExeWriteBundle(ok)
    \/ \E exit \in ExitCodes : ExeRunCandle(exit)
    \/ \E exit \in ExitCodes : RunLight(exit)

-----------------------------------------------------------------------------
(* The toolchain invoker: run_candle and run_light start the child with     *)
(* stderr joined to stdout, log its output line by line, then look at its   *)
(* exit status.                                                             *)

\* Largest number of lines a child process writes.
MaxLines == 2

\* Lines a child process writes.
Lines == {"warning", "error"}

\* What a child process writes before it exits.
Outputs == UNION {[1..n -> Lines] : n \in 0..MaxLines}

NoChild == [tool |-> "none", spawned |-> FALSE, out |-> <<>>, exit |-> 0]

InitInvoker ==
    /\ inv_pc = "idle"
    /\ child = NoChild
    /\ sink = <<>>
    /\ waited = FALSE
    /\ inv_result = "none"

\* cmd(..).stderr_to_stdout().reader()?: the child is started; what it will write
\* and the status it will exit with are its own.  A child that cannot be started
\* ends the call with an error.
Spawn(tool, out, exit, ok) ==
    /\ inv_pc \in {"idle", "returned"}
    /\ sink' = <<>>
    /\ waited' = FALSE
    /\ IF ok
       THEN /\ child' = [tool |-> tool, spawned |-> TRUE, out |-> out, exit |-> exit]
            /\ inv_pc' = "reading"
            /\ inv_result' = "none"
       ELSE /\ child' = [NoChild EXCEPT !.tool = tool]
            /\ inv_pc' = "returned"
            /\ inv_result' = "Err"
    /\ UNCHANGED compilerVars
    /\ UNCHANGED configBuilderVars
    /\ UNCHANGED buildVars

run_candle(out, exit, ok) == Spawn("candle", out, exit, ok)

run_light(out, exit, ok) == Spawn("light", out, exit, ok)

\* One turn of `for line in reader.lines() { warn!(logger, "{}", line?); }`:
\* the next line is logged, or reading it failed and the call returns the error.
ForwardLine(ok) ==
    /\ inv_pc = "reading"
    /\ Len(sink) < Len(child.out)
    /\ IF ok
       THEN /\ sink' = Append(sink, child.out[Len(sink) + 1])
            /\ UNCHANGED <<inv_pc, inv_result>>
       ELSE /\ inv_pc' = "returned"
            /\ inv_result' = "Err"
            /\ UNCHANGED sink
    /\ UNCHANGED <<child, waited>>
    /\ UNCHANGED compilerVars
    /\ UNCHANGED configBuilderVars
    /\ UNCHANGED buildVars

\* The result of a call whose child exited with `exit`.
InvokerResult(tool, exit) ==
    IF tool = "light" THEN LightResult(exit)
    ELSE IF exit = 0 THEN "Ok" ELSE "Err"

\* The output has ended: the exit status is collected and decides the result.
WaitChild ==
    /\ inv_pc = "reading"
    /\ Len(sink) = Len(child.out)
    /\ waited' = TRUE
    /\ inv_result' = InvokerResult(child.tool, child.exit)
    /\ inv_pc' = "returned"
    /\ UNCHANGED <<child, sink>>
    /\ UNCHANGED compilerVars
    /\ UNCHANGED configBuilderVars
    /\ UNCHANGED buildVars

NextInvoke ==
    \/ \E out \in Outputs, exit \in ExitCodes, ok \in BOOLEAN : run_candle(out, exit, ok)
    \/ \E out \in Outputs, exit \in ExitCodes, ok \in BOOLEAN : run_light(out, exit, ok)
    \/ \E ok \in BOOLEAN : ForwardLine(ok)
    \/ WaitChild

-----------------------------------------------------------------------------
(* Specifications.                                                         *)

\* The manifest compiler; the builder's state stays as constructed.
Init ==
    /\ InitCompiler
    /\ InitBuilder
    /\ InitInvoker
    /\ target_triple = CHOOSE t \in Triples : TRUE
    /\ ~include_vc_redist_x86
    /\ ~include_vc_redist_x64

Next ==
    \/ \E p \in ManifestPaths : add_file(p)
    \/ \E rid \in RootDirectoryIds : CallWriteFileManifestToWix(rid)

Spec == Init /\ [][Next]_vars

\* The builders; the compiler's state stays as constructed.
InitBuild == InitCompiler /\ InitBuilder /\ InitInvoker

SpecBuild == InitBuild /\ [][NextBuild]_vars

\* Manifests compiled a second time.
RegenPaths ==
    {<<<<"f">>>>, <<<<"a">>, <<"f">>>>, <<<<"a">>, <<"a">>>>, <<<<"a", "-", "b">>, <<"f">>>>,
     <<<<"a">>, <<"a", "-", "b">>, <<"f">>>>}

NextRegen ==
    \/ \E p \in RegenPaths : add_file(p)
    \/ \E rid \in RootDirectoryIds : CallWriteFileManifestToWix(rid)
    \/ \E order \in Orders(manifest) : Regenerate(order)

SpecRegen == Init /\ [][NextRegen]_vars

\* Manifests whose directory names differ by '-' and '_', or by '/' and '.', or
\* are the root directory id.
CollidingPaths ==
    {<<<<"f">>>>,
     <<<<"a", "-", "b">>, <<"f">>>>,
     <<<<"a", "_", "b">>, <<"f">>>>,
     <<<<"a", ".", "b">>, <<"f">>>>,
     <<<<"a">>, <<"b">>, <<"f">>>>,
     <<<<"R", "O", "O", "T">>, <<"f">>>>,
     <<<<"r", "o", "o", "t">>, <<"f">>>>}

NextIds ==
    \/ \E p \in CollidingPaths : add_file(p)
    \/ \E rid \in RootDirectoryIds : CallWriteFileManifestToWix(rid)

SpecIds == Init /\ [][NextIds]_vars

\* The toolchain invoker; the compiler's and the builders' state stays as constructed.
SpecInvoke == Init /\ [][NextInvoke]_vars

-----------------------------------------------------------------------------
(* Properties of the compiled document.                                    *)

\* Number of positions of sequence s that hold x.
Count(s, x) == Cardinality({i \in DOMAIN s : s[i] = x})

\* The directory a manifest path is directly in (None: the install root).
ContainingDirectory(p) == IF Len(p) = 1 THEN None ELSE Some(SubSeq(p, 1, Len(p) - 1))

\* d is a directory some file of the manifest lies in, at any depth.
IsImplied(d) ==
    \E p \in manifest : Len(d) < Len(p) /\ \A i \in 1..Len(d) : p[i] = d[i]

\* Every directory implied by the manifest.
Implied == {d \in DirPaths \ {<<>>} : IsImplied(d)}

\* Path p lies under directory D, whole components compared.
Under(p, D) == Len(D) <= Len(p) /\ \A i \in 1..Len(D) : p[i] = D[i]

\* Positions of the <DirectoryRef> fragments and of the <ComponentGroup> fragments.
RefPositions == {i \in DOMAIN doc : doc[i].tag = "DirectoryRef"}

GroupPositions == {i \in DOMAIN doc : doc[i].tag = "ComponentGroup"}

\* Every <Component> of the document, in document order.
AllComponents == Flatten([i \in 1..Len(doc) |-> doc[i].Component])

\* C1: once compiled, every directory implied by a file's path, intermediate
\* directories without files of their own included, has exactly one DirectoryRef
\* fragment, carrying its directory id, and every DirectoryRef fragment other
\* than the root's is that of an implied directory.
C1_TreeCompleteness ==
    compiled =>
        /\ \A d \in Implied :
            /\ Cardinality({i \in RefPositions : doc[i].directory = Some(d)}) = 1
            /\ \A i \in RefPositions :
                doc[i].directory = Some(d) => doc[i].Id = directory_to_id(IdPrefix, d)
        /\ \A i \in RefPositions :
            doc[i].directory # None => doc[i].directory[1] \in Implied

\* C1 witness: a compiled manifest with a directory that holds no file of its own
\* and sits above one that does.
C1_Witness ==
    /\ compiled
    /\ \E d \in Implied :
        /\ \A p \in manifest : ContainingDirectory(p) # Some(d)
        /\ \E i \in RefPositions : doc[i].directory = Some(d)

\* C2: once compiled, there is one component group per directory; the root's
\* references the component id of every manifest file exactly once and no other
\* id, and the group of directory D references the component id of each file
\* whose path lies under D (by whole components) exactly once, and no other id.
C2_GroupCompleteness ==
    compiled =>
        /\ Cardinality({i \in GroupPositions : doc[i].directory = None}) = 1
        /\ \A d \in Implied :
            Cardinality({i \in GroupPositions : doc[i].directory = Some(d)}) = 1
        /\ \A i \in GroupPositions :
            LET D == IF doc[i].directory = None THEN <<>> ELSE doc[i].directory[1]
                refs == doc[i].ComponentRef
            IN /\ \A p \in manifest :
                    Count(refs, component_id(IdPrefix, p)) = IF Under(p, D) THEN 1 ELSE 0
               /\ \A j \in DOMAIN refs :
                    \E p \in manifest : Under(p, D) /\ refs[j] = component_id(IdPrefix, p)

\* C2 witness: a compiled manifest with a file under directory "a" and a file
\* under "a-b", whose text starts with "a" though it is not under "a".
C2_Witness ==
    /\ compiled
    /\ \E p, q \in manifest :
        /\ Len(p) > 1 /\ p[1] = <<"a">>
        /\ Len(q) > 1 /\ q[1] = <<"a", "-", "b">>
    /\ \E i \in GroupPositions :
        /\ doc[i].directory = Some(<<<<"a">>>>)
        /\ Len(doc[i].ComponentRef) >= 1
        /\ Len(doc[i].ComponentRef) < Cardinality(manifest)

\* The directories directly below D (D = <<>>: those with no parent segment).
ChildrenOf(D) ==
    {d \in Implied : Len(d) = Len(D) + 1 /\ \A i \in 1..Len(D) : d[i] = D[i]}

\* C3: once compiled, the fragment of directory D declares one child Directory,
\* by id and name, for exactly the directories whose path extends D by one
\* component (for the root: the directories of one component), and no fragment
\* declares its own directory or the root as a child.
C3_ChildDirectories ==
    compiled =>
        \A i \in RefPositions :
            LET D == IF doc[i].directory = None THEN <<>> ELSE doc[i].directory[1]
                decl == doc[i].Directory
            IN /\ Len(decl) = Cardinality(ChildrenOf(D))
               /\ Range(decl) = {[Id |-> directory_to_id(IdPrefix, d), Name |-> d[Len(d)]] :
                                    d \in ChildrenOf(D)}
               /\ \A j \in DOMAIN decl : decl[j].Id # doc[i].Id /\ decl[j].Id # root_id

\* C3 witness: a compiled manifest with a file in the install root and a directory
\* that holds a file, a child directory and a grandchild directory; its fragment
\* declares the child alone, and the root's fragment declares it alone.
C3_Witness ==
    /\ compiled
    /\ \E p \in manifest : Len(p) = 1
    /\ \E i \in RefPositions :
        /\ doc[i].directory # None
        /\ \E d \in Implied : Len(d) = Len(doc[i].directory[1]) + 2
                                /\ Under(d, doc[i].directory[1])
        /\ Len(doc[i].Directory) = 1
        /\ Len(doc[i].Component) = 1
    /\ Len(doc[1].Directory) = 1

\* C4: once compiled, the document holds exactly one Component per manifest file,
\* in the fragment of the file's containing directory, with exactly one File whose
\* source is the file's path under the install prefix; the component ids are
\* pairwise distinct and the component GUIDs are pairwise distinct.
C4_OneFileOneComponent ==
    compiled =>
        /\ Len(AllComponents) = Cardinality(manifest)
        /\ \A p \in manifest :
            \E i \in RefPositions :
                /\ doc[i].directory = ContainingDirectory(p)
                /\ \E j \in DOMAIN doc[i].Component :
                    LET c == doc[i].Component[j]
                    IN /\ c.Id = component_id(IdPrefix, p)
                       /\ c.Guid = component_guid(IdPrefix, p)
                       /\ Len(c.File) = 1
                       /\ c.File[1].Source = PathToString(InstallPrefix \o p)
        /\ \A j, k \in DOMAIN AllComponents :
            j # k => /\ AllComponents[j].Id # AllComponents[k].Id
                     /\ AllComponents[j].Guid # AllComponents[k].Guid

\* C4 witness: a compiled manifest of three or more files, two of them with the same
\* file name in different directories and two in one directory.
C4_Witness ==
    /\ compiled
    /\ Cardinality(manifest) >= 3
    /\ \E p, q \in manifest :
        p # q /\ FileName(p) = FileName(q)
    /\ \E i \in RefPositions : Len(doc[i].Component) = 2
    /\ Len(AllComponents) >= 3

\* C5: the document compiled from a manifest with no entries consists of the
\* DirectoryRef fragment of root_directory_id, with no child directory and no
\* component, and the root component group, with no member, and nothing else.
C5_EmptyManifest ==
    (compiled /\ manifest = {}) =>
        /\ Len(doc) = 2
        /\ doc[1].tag = "DirectoryRef"
        /\ doc[1].directory = None
        /\ doc[1].Id = root_id
        /\ doc[1].Directory = <<>>
        /\ doc[1].Component = <<>>
        /\ doc[2].tag = "ComponentGroup"
        /\ doc[2].directory = None
        /\ doc[2].Id = component_group_id(IdPrefix, <<root_id>>)
        /\ doc[2].ComponentRef = <<>>

\* C5 witness: the empty manifest has been compiled.
C5_Witness == compiled /\ manifest = {} /\ Len(doc) = 2 /\ root_id \in RootDirectoryIds

\* The <Component> elements written for manifest entry p: those whose <File> has
\* p's path under the install prefix as its source.
ComponentsOf(p) ==
    {c \in Range(AllComponents) :
        \E k \in DOMAIN c.File : c.File[k].Source = PathToString(InstallPrefix \o p)}

\* C13: once compiled, the File Id written for a manifest entry is file_id of the
\* id prefix and the entry's file name alone, and its component's id is
\* component_id of the entry's whole relative path; so two entries have the same
\* File Id exactly when they have the same file name: two files of one
\* directory never do, two files of the same name in different directories
\* always do, while their component ids differ.
C13_FileIdScoping ==
    compiled =>
        /\ \A p \in manifest :
            /\ ComponentsOf(p) # {}
            /\ \A c \in ComponentsOf(p) :
                /\ c.File[1].Id = file_id(IdPrefix, FileName(p))
                /\ c.Id = component_id(IdPrefix, p)
        /\ \A p, q \in manifest :
            \A c \in ComponentsOf(p), d \in ComponentsOf(q) :
                /\ (c.File[1].Id = d.File[1].Id) <=> (FileName(p) = FileName(q))
                /\ (p # q /\ ContainingDirectory(p) = ContainingDirectory(q)) =>
                        c.File[1].Id # d.File[1].Id
                /\ p # q => c.Id # d.Id

\* C13 witness: a compiled manifest with two files of one directory, whose File
\* Ids differ, and two files of the same name in different directories, whose
\* File Ids are equal and whose component ids differ.
C13_Witness ==
    /\ compiled
    /\ \E p, q \in manifest :
        /\ p # q
        /\ ContainingDirectory(p) = ContainingDirectory(q)
        /\ \E c \in ComponentsOf(p), d \in ComponentsOf(q) : c.File[1].Id # d.File[1].Id
    /\ \E p, q \in manifest :
        /\ ContainingDirectory(p) # ContainingDirectory(q)
        /\ FileName(p) = FileName(q)
        /\ \E c \in ComponentsOf(p), d \in ComponentsOf(q) :
            c.File[1].Id = d.File[1].Id /\ c.Id # d.Id

Declaring(id) ==
    {j \in RefPositions : \E k \in DOMAIN doc[j].Directory : doc[j].Directory[k].Id = id}

\* C15 (as claimed): once compiled, the directory id of every fragment other than
\* the root's is declared as a child Directory in exactly one other fragment,
\* the fragment of its parent directory (the root's for a directory of one
\* component).
C15_DirectoryLinkageClosed ==
    compiled =>
        \A i \in RefPositions :
            doc[i].directory # None =>
                /\ Cardinality(Declaring(doc[i].Id) \ {i}) = 1
                /\ \A j \in Declaring(doc[i].Id) \ {i} :
                    doc[j].directory =
                        IF Len(doc[i].directory[1]) = 1 THEN None
                        ELSE Parent(doc[i].directory[1])

\* C16 (as claimed): once compiled, no two directories, the root included, have
\* the same directory id, and no two have the same component-group id.
C16_UniqueDirectoryAndGroupIds ==
    compiled =>
        /\ \A i, j \in RefPositions : i # j => doc[i].Id # doc[j].Id
        /\ \A i, j \in GroupPositions : i # j => doc[i].Id # doc[j].Id

-----------------------------------------------------------------------------
(* Properties of the builds.                                               *)

\* C6: a candle run that exits nonzero is the last toolchain run of its build:
\* the build has ended in an error, no further candle run and no light run was
\* made, and no artefact was written; a light run that exits nonzero ends the
\* build in an error; light runs at most once and candle at most once per entry
\* of the fragment list, so nothing is retried.
C6_FailingStageIsTerminal ==
    /\ \A i \in DOMAIN candle_log :
        candle_log[i].exit # 0 =>
            /\ i = Len(candle_log)
            /\ light_log = <<>>
            /\ ~output_written
            /\ pc = "done"
            /\ result = "Err"
    /\ \A i \in DOMAIN light_log :
        light_log[i].exit # 0 => pc = "done" /\ result = "Err" /\ ~output_written
    /\ Len(light_log) <= 1
    /\ kind = "msi" => Len(candle_log) <= Cardinality(wxs_files) + 1
    /\ kind = "exe" => Len(candle_log) <= 1

\* C6 witness: a build_msi run whose first candle run failed while two more
\* fragments were waiting, and which made no other toolchain run.
C6_Witness ==
    /\ kind = "msi"
    /\ pc = "done"
    /\ result = "Err"
    /\ Len(candle_log) = 1
    /\ candle_log[1].exit # 0
    /\ Len(todo) = 3
    /\ light_log = <<>>

\* The fragment paths in the order of registration, the generated fragment last.
RegistrationOrder ==
    [i \in 1..Len(registered) |-> wxs_path \o registered[i]]
        \o <<wxs_path \o <<InstallFilesWxs>>>>

\* C7 (as claimed): when build_msi has succeeded, candle was run once per fragment
\* file, in registration order with the generated fragment last and no path
\* twice, and light was then run once over the outputs in that order.
C7_CandleOncePerFragmentInOrder ==
    (kind = "msi" /\ pc = "done" /\ result = "Ok") =>
        /\ [i \in 1..Len(candle_log) |-> candle_log[i].wxs] = RegistrationOrder
        /\ \A i, j \in DOMAIN candle_log :
            i # j => candle_log[i].wxs # candle_log[j].wxs
        /\ Len(light_log) = 1
        /\ light_log[1].wixobjs =
            [i \in 1..Len(candle_log) |-> with_extension(candle_log[i].wxs, WixobjExt)]

\* C8 (as claimed): a build that found the toolchain in its build directory
\* fetches no toolchain.
C8_ToolchainFetchedOnlyWhenAbsent ==
    had_toolset => \A i \in DOMAIN fetch_log : fetch_log[i] # "wix-toolset"

\* C9 (as claimed): add_wxs_file on a path whose file name cannot be resolved
\* fails with no I/O attempted and the registered fragments unchanged.
C9_ConfigurationErrorBeforeIO ==
    (last_result.op = "add_wxs_file" /\ file_name(last_result.path) = None) =>
        /\ last_result.result = "Err"
        /\ io_log = <<>>
        /\ wxs_files = last_result.before

\* Triples whose architecture is a 64-bit one.
Is64BitTriple(triple) ==
    \/ StrStartsWith(triple, <<"x", "8", "6", "_", "6", "4", "-">>)
    \/ StrStartsWith(triple, <<"a", "a", "r", "c", "h", "6", "4", "-">>)

\* C10 (as claimed): build_msi gives candle x64 when the target triple names a
\* 64-bit platform and x86 otherwise; build_exe always gives x64.
C10_ArchitectureSelection ==
    \A i \in DOMAIN candle_log :
        /\ kind = "msi" =>
            candle_log[i].arch = IF Is64BitTriple(target_triple) THEN ArchX64 ELSE ArchX86
        /\ kind = "exe" => candle_log[i].arch = ArchX64

\* The include flag of a redistributable package.
IncludeFlag(pkg) ==
    IF pkg = "vc_redist.x86.exe" THEN include_vc_redist_x86 ELSE include_vc_redist_x64

\* C12: in a build_exe run that has written bundle.wxs, each redistributable was
\* fetched once if its flag is set and its file was not in the build directory
\* when the build began, and not at all otherwise; the chain holds one package
\* entry for it if its flag is set and none otherwise, and nothing else; and a
\* build_exe run that succeeded ran candle once and light once, also with both
\* flags off and an empty chain.
C12_OptionalRedistributables ==
    /\ (kind = "exe" /\ chain # None) =>
        /\ \A pkg \in {"vc_redist.x86.exe", "vc_redist.x64.exe"} :
            /\ Count(fetch_log, pkg) =
                    IF IncludeFlag(pkg) /\ pkg \notin fs_before THEN 1 ELSE 0
            /\ Cardinality({i \in DOMAIN chain[1] : chain[1][i].Id = pkg}) =
                    IF IncludeFlag(pkg) THEN 1 ELSE 0
        /\ \A i \in DOMAIN chain[1] :
            chain[1][i].Id \in {"vc_redist.x86.exe", "vc_redist.x64.exe"}
    /\ (kind = "exe" /\ pc = "done" /\ result = "Ok") =>
        /\ chain # None
        /\ Len(candle_log) = 1
        /\ Len(light_log) = 1
        /\ (~include_vc_redist_x86 /\ ~include_vc_redist_x64) => chain[1] = <<>>

\* C12 witness: a second build_exe in the same build directory, with the x86
\* package enabled and already present and the x64 package disabled, has
\* succeeded without fetching a redistributable.
C12_Witness ==
    /\ kind = "exe"
    /\ pc = "done"
    /\ result = "Ok"
    /\ include_vc_redist_x86
    /\ ~include_vc_redist_x64
    /\ "vc_redist.x86.exe" \in fs_before
    /\ Len(chain[1]) = 1
    /\ \A i \in DOMAIN fetch_log : fetch_log[i] = "wix-toolset"

-----------------------------------------------------------------------------
(* Properties of the toolchain invoker.                                    *)

\* C11 (as claimed): a run_candle / run_light call that started its child returns
\* only after every line the child wrote has been given to the logger, in order,
\* and the child's exit has been collected, and it returns success exactly when
\* the child's exit code is zero.
C11_ReturnsAfterOutputStreamed ==
    (inv_pc = "returned" /\ child.spawned) =>
        /\ sink = child.out
        /\ waited
        /\ (inv_result = "Ok") <=> (child.exit = 0)

====
